---------------------------- MODULE Spec2Model ----------------------------
(***************************************************************************)
(* JoinGuard bot (src/main.py): the join-request moderation engine.        *)
(*                                                                         *)
(* The bot is an asyncio program: every inbound update is handled by its   *)
(* own coroutine, and coroutines interleave only at an await.  The sqlite  *)
(* calls of Storage are synchronous, so the code between two awaits is one *)
(* atomic step.  Each handler is therefore cut at the awaits that separate *)
(* two accesses to the store:                                              *)
(*   on_join_request    : JoinStart | (messages, assess_risk) | JoinRoute  *)
(*   on_captcha_callback: CapCorrect, CapWrongLast | (gateway) | CapFinish *)
(*   on_admin_callback  : AdmStart                 | (gateway) | AdmFinish *)
(*   on_panel_callback  : one step (the store is not written after the     *)
(*                        first await).                                    *)
(* The gateway (Telegram) is outside the program: each admit/reject call   *)
(* either returns or raises TelegramBadRequest, the only two outcomes the  *)
(* handlers tell apart (try_approve_request / try_decline_request).  No    *)
(* handler can observe the gateway between the call and the resumption of  *)
(* the caller, so the outcome is drawn in the step that resumes it.        *)
(* A profile lookup of assess_risk gives its value, fails with             *)
(* TelegramBadRequest (caught: the rule is left out) or fails with another *)
(* exception, which ends on_join_request (JoinAbort).                      *)
(* The pure functions assess_risk and generate_captcha are also applied on *)
(* their own, to wider inputs, in SpecRisk and SpecCaptcha.                *)
(***************************************************************************)
EXTENDS Integers, Sequences, FiniteSets, TLC

VARIABLES
    settings,      \* Settings (frozen dataclass), fixed after start-up
    recs,          \* table join_requests: recs[id] is the row with that id
    mode_setting,  \* bot_settings['moderation_mode'], Null when absent
    inflight,      \* handlers suspended at an await, in order of arrival
    lastResp,      \* what the handler that finished last told its caller
    ghost,         \* history per record, for stating the properties only
    joins,         \* join requests received so far
    probe          \* the last call of a pure function: its input and result

vars == <<settings, recs, mode_setting, inflight, lastResp, ghost, joins, probe>>

----------------------------------------------------------------------------
(* Bounds of the model *)

\* applicants that send join requests, and handlers that may be suspended at
\* an await at the same time: in Spec (one record, overlapping handlers) ...
NumApplicants == 1
MaxInflight == 2
\* ... and in SpecWide (every event and every sender, one handler at a time)
NumApplicantsWide == 1
MaxInflightWide == 1
\* ... and in SpecPair (several records, one handler at a time)
NumApplicantsPair == 2
\* join requests the model lets arrive
MaxJoins == 2
\* offsets drawn by one call of generate_captcha
MaxNoiseDraws == 4
\* captcha_attempts is not bounded by the code; the model stops counting here
AttemptsCap == 2

(* Program constants *)

\* the literal written to captcha_max_attempts by create_or_refresh_request
RowDefaultMaxAttempts == 3
WeightBot == 10
WeightAge == 5
WeightNoUsername == 3
WeightName == 2
WeightNoPhoto == 2
WeightBio == 3

\* SQL NULL / Python None: the empty tuple; a present value v is <<v>>
Null == <<>>
Some(v) == <<v>>
Val(x) == x[1]

Min(a, b) == IF a <= b THEN a ELSE b
\* the history counts 0, 1, and 2 for "more than once"
Sat(n) == IF n < 2 THEN n + 1 ELSE n

Applicants == 1..NumApplicants
ApplicantsWide == 1..NumApplicantsWide
ApplicantsPair == 1..NumApplicantsPair
AdminId == 100
TargetChannel == 1
Channels == {1, 2}

RemoveAt(s, i) == SubSeq(s, 1, i - 1) \o SubSeq(s, i + 1, Len(s))

----------------------------------------------------------------------------
(* Settings.from_env *)

SettingsValid(s) ==
    /\ s.admin_ids # {}
    /\ s.max_captcha_attempts >= 1
    /\ s.hard_captcha_attempts >= 1
    /\ s.risk_score_to_hard_captcha >= 0
    /\ s.risk_score_to_admin > s.risk_score_to_hard_captcha

\* two configurations from_env accepts: the default thresholds, with the hard
\* captcha allowing fewer attempts than max_captcha_attempts, and more
\* (both difficulties then allow a retry)
SettingsSamples ==
    { [channel_id |-> TargetChannel, admin_ids |-> {AdminId},
       min_account_age_days |-> 30, max_captcha_attempts |-> 2,
       risk_score_to_admin |-> 7, risk_score_to_hard_captcha |-> 4,
       hard_captcha_attempts |-> 1],
      [channel_id |-> TargetChannel, admin_ids |-> {AdminId},
       min_account_age_days |-> 30, max_captcha_attempts |-> 2,
       risk_score_to_admin |-> 7, risk_score_to_hard_captcha |-> 4,
       hard_captcha_attempts |-> 3] }

\* _is_admin accepting every sender
_is_admin_Anyone(user_id) == TRUE

_is_admin(user_id) == user_id \in settings.admin_ids

----------------------------------------------------------------------------
(* Storage *)

FreshRow(uid) ==
    [user_id |-> uid, status |-> "new", is_suspicious |-> FALSE,
     estimated_age_days |-> Null, risk_score |-> 0, risk_reasons |-> Null,
     captcha_question |-> Null, captcha_answer |-> Null,
     captcha_attempts |-> 0, captcha_max_attempts |-> RowDefaultMaxAttempts,
     captcha_difficulty |-> "normal",
     decision_by |-> Null, decision_at |-> Null, reason |-> Null]

\* the id of the row of (channel, uid), 0 when there is none
IdOf(table, uid) ==
    IF \E i \in 1..Len(table) : table[i].user_id = uid
    THEN CHOOSE i \in 1..Len(table) : table[i].user_id = uid
    ELSE 0

\* create_or_refresh_request without the conflict clause: always a new row
create_or_refresh_AlwaysInsert(table, uid) == Append(table, FreshRow(uid))

\* create_or_refresh_request whose DO UPDATE sets the status only
create_or_refresh_StatusOnly(table, uid) ==
    IF IdOf(table, uid) = 0
    THEN Append(table, FreshRow(uid))
    ELSE [table EXCEPT ![IdOf(table, uid)].status = "new"]

\* INSERT ... ON CONFLICT(channel_id, user_id) DO UPDATE SET ...
create_or_refresh_request(table, uid) ==
    IF IdOf(table, uid) = 0
    THEN Append(table, FreshRow(uid))
    ELSE [table EXCEPT ![IdOf(table, uid)] = FreshRow(uid)]

\* set_risk_profile that does not store the score
set_risk_profile_NoScore(table, id, age, score, reasons) ==
    [table EXCEPT ![id].estimated_age_days = Some(age),
                  ![id].risk_reasons = Some(reasons)]

set_risk_profile(table, id, age, score, reasons) ==
    [table EXCEPT ![id].estimated_age_days = Some(age),
                  ![id].risk_score = score,
                  ![id].risk_reasons = Some(reasons)]

mark_pending_admin(table, id, reason) ==
    [table EXCEPT ![id].status = "pending_admin",
                  ![id].is_suspicious = TRUE,
                  ![id].reason = Some(reason)]

\* mark_pending_captcha that does not store the expected answer
mark_pending_captcha_NoAnswer(table, id, question, answer, max_attempts, difficulty) ==
    [table EXCEPT ![id].status = "pending_captcha",
                  ![id].is_suspicious = (difficulty = "hard"),
                  ![id].captcha_question = Some(question),
                  ![id].captcha_attempts = 0,
                  ![id].captcha_max_attempts = max_attempts,
                  ![id].captcha_difficulty = difficulty,
                  ![id].reason = Null]

mark_pending_captcha(table, id, question, answer, max_attempts, difficulty) ==
    [table EXCEPT ![id].status = "pending_captcha",
                  ![id].is_suspicious = (difficulty = "hard"),
                  ![id].captcha_question = Some(question),
                  ![id].captcha_answer = Some(answer),
                  ![id].captcha_attempts = 0,
                  ![id].captcha_max_attempts = max_attempts,
                  ![id].captcha_difficulty = difficulty,
                  ![id].reason = Null]

refresh_captcha(table, id, question, answer) ==
    [table EXCEPT ![id].captcha_question = Some(question),
                  ![id].captcha_answer = Some(answer)]

increment_captcha_attempts(table, id) ==
    [table EXCEPT ![id].captcha_attempts = @ + 1]

\* complete whose UPDATE has no WHERE id = ?
complete_AllRows(table, id, status, decision_by, reason) ==
    [r \in 1..Len(table) |->
        [table[r] EXCEPT !.status = status,
                         !.decision_by = decision_by,
                         !.decision_at = Some("now"),
                         !.reason = Some(reason)]]

\* decision_at is the wall clock; the model keeps only that it is set
complete(table, id, status, decision_by, reason) ==
    [table EXCEPT ![id].status = status,
                  ![id].decision_by = decision_by,
                  ![id].decision_at = Some("now"),
                  ![id].reason = Some(reason)]

\* get_moderation_mode returning whatever is stored
get_moderation_mode_Raw ==
    IF mode_setting = Null THEN "hybrid" ELSE Val(mode_setting)

get_moderation_mode ==
    IF mode_setting \in {Some("hybrid"), Some("manual")}
    THEN Val(mode_setting) ELSE "hybrid"

----------------------------------------------------------------------------
(* Risk scoring *)

\* The signals of one applicant as the handler sees them: the account's age
\* estimate, the User object, and the two profile lookups.  A lookup gives
\* its value, or "unknown" (None: it raised TelegramBadRequest, which lines
\* 726 and 736 catch, or there is no biography), or "raised": it raised
\* another exception of the gateway client, which nothing catches.
\* The first three samples score 0, 4 and 7: below, at the hard-captcha
\* threshold and at the admin threshold of SettingsSamples.
SignalSamples ==
    { [age |-> 400, is_bot |-> FALSE, username |-> TRUE, bad_name |-> FALSE,
       photo |-> "unknown", bio |-> "unknown"],
      [age |-> 400, is_bot |-> FALSE, username |-> TRUE, bad_name |-> TRUE,
       photo |-> "absent", bio |-> "clean"],
      [age |-> 10, is_bot |-> FALSE, username |-> TRUE, bad_name |-> TRUE,
       photo |-> "present", bio |-> "clean"],
      [age |-> 400, is_bot |-> FALSE, username |-> TRUE, bad_name |-> FALSE,
       photo |-> "present", bio |-> "raised"] }

\* every combination of the signals, with an age below, at and above
\* min_account_age_days
AllSignals ==
    [age : {10, 30, 400}, is_bot : BOOLEAN, username : BOOLEAN,
     bad_name : BOOLEAN,
     photo : {"present", "absent", "unknown", "raised"},
     bio : {"clean", "spam", "unknown", "raised"}]

\* lines 710 and 715: an exception of a lookup that is not caught leaves
\* assess_risk
assess_risk_raises(sig) == sig.photo = "raised" \/ sig.bio = "raised"

\* RuleSteps with the two lookups tested in the other order
RuleSteps_BioBeforePhoto(sig) ==
    << [on |-> TRUE, w |-> 0, tag |-> <<"eta_account_stimata", sig.age>>],
       [on |-> sig.is_bot, w |-> WeightBot, tag |-> <<"account_bot">>],
       [on |-> sig.age < settings.min_account_age_days, w |-> WeightAge,
        tag |-> <<"eta_sotto_soglia", sig.age, settings.min_account_age_days>>],
       [on |-> ~sig.username, w |-> WeightNoUsername, tag |-> <<"username_assente">>],
       [on |-> sig.bad_name, w |-> WeightName, tag |-> <<"nome_sospetto">>],
       [on |-> sig.bio = "spam", w |-> WeightBio, tag |-> <<"bio_con_pattern_spam">>],
       [on |-> sig.photo = "absent", w |-> WeightNoPhoto,
        tag |-> <<"foto_profilo_assente">>] >>

\* lines 694-718: the entries of reasons in the order the code appends them,
\* each with its condition and its weight
RuleSteps(sig) ==
    << [on |-> TRUE, w |-> 0, tag |-> <<"eta_account_stimata", sig.age>>],
       [on |-> sig.is_bot, w |-> WeightBot, tag |-> <<"account_bot">>],
       [on |-> sig.age < settings.min_account_age_days, w |-> WeightAge,
        tag |-> <<"eta_sotto_soglia", sig.age, settings.min_account_age_days>>],
       [on |-> ~sig.username, w |-> WeightNoUsername, tag |-> <<"username_assente">>],
       [on |-> sig.bad_name, w |-> WeightName, tag |-> <<"nome_sospetto">>],
       [on |-> sig.photo = "absent", w |-> WeightNoPhoto,
        tag |-> <<"foto_profilo_assente">>],
       [on |-> sig.bio = "spam", w |-> WeightBio, tag |-> <<"bio_con_pattern_spam">>] >>

RECURSIVE ApplyRules(_, _, _)
ApplyRules(steps, score, reasons) ==
    IF steps = <<>> THEN [score |-> score, reasons |-> reasons]
    ELSE LET s == Head(steps) IN
         IF s.on THEN ApplyRules(Tail(steps), score + s.w, Append(reasons, s.tag))
         ELSE ApplyRules(Tail(steps), score, reasons)

assess_risk(sig) ==
    LET r == ApplyRules(RuleSteps(sig), 0, <<>>) IN
    [estimated_age_days |-> sig.age, score |-> r.score, reasons |-> r.reasons]

----------------------------------------------------------------------------
(* Challenges *)

\* the random draws (first, second, operation) the model explores, taken
\* from the ranges of generate_captcha
CaptchaDraws(difficulty) ==
    IF difficulty = "hard"
    THEN { <<7, 13, "-">> }
    ELSE { <<2, 1, "+">>, <<2, 9, "-">> }

\* generate_captcha with the operands exchanged (line 453) for the question
\* only
generate_captcha_SwapShown(difficulty, draw) ==
    LET swap   == draw[3] = "-" /\ draw[2] > draw[1]
        first  == IF swap THEN draw[2] ELSE draw[1]
        second == IF swap THEN draw[1] ELSE draw[2]
        answer == CASE draw[3] = "+" -> draw[1] + draw[2]
                    [] draw[3] = "-" -> draw[1] - draw[2]
                    [] OTHER -> draw[1] * draw[2]
    IN [question |-> <<first, draw[3], second>>, answer |-> answer]

\* lines 443-460 and 470: the question and the expected answer
generate_captcha(difficulty, draw) ==
    LET swap   == draw[3] = "-" /\ draw[2] > draw[1]
        first  == IF swap THEN draw[2] ELSE draw[1]
        second == IF swap THEN draw[1] ELSE draw[2]
        answer == CASE draw[3] = "+" -> first + second
                    [] draw[3] = "-" -> first - second
                    [] OTHER -> first * second
    IN [question |-> <<first, draw[3], second>>, answer |-> answer]

\* lines 462-466: the candidate answers; the loop draws an offset and adds
\* answer + offset until there are four different values
noise_limit(difficulty) == IF difficulty = "hard" THEN 20 ELSE 7

RECURSIVE add_options(_, _, _)
add_options(options, answer, noises) ==
    IF Cardinality(options) >= 4 \/ noises = <<>> THEN options
    ELSE add_options(options \cup {answer + Head(noises)}, answer, Tail(noises))

\* lines 468-469: list(options) and random.shuffle give the candidates in
\* some order
Shuffles(options) ==
    { l \in [1..Cardinality(options) -> options] :
         \A a, b \in 1..Cardinality(options) : l[a] = l[b] => a = b }

\* the draws SpecCaptcha explores: the ends of the ranges of lines 444-450
\* (with second > first and second < first), every operation ...
CaptchaDrawsWide(difficulty) ==
    IF difficulty = "hard"
    THEN {7, 19} \X {3, 13} \X {"+", "-", "*"}
    ELSE {2, 12} \X {1, 9} \X {"+", "-"}

\* ... and offsets from the ends and the middle of the noise window, 0 and
\* repeated offsets included
NoiseDraws(difficulty) ==
    [1..MaxNoiseDraws ->
        {-noise_limit(difficulty), -1, 0, 1, noise_limit(difficulty)}]

\* what a button press may carry: an answer of some challenge, or another value
SelectedAnswers ==
    { generate_captcha(d, w).answer : d \in {"hard"}, w \in CaptchaDraws("hard") }
    \cup { generate_captcha(d, w).answer : d \in {"normal"}, w \in CaptchaDraws("normal") }
    \cup { -1 }

----------------------------------------------------------------------------
(* History *)

FreshGhost(m) ==
    [writers |-> {},       \* handler kinds that wrote a terminal status
     execOK |-> 0,         \* gateway calls that succeeded
     rejectCalls |-> 0,    \* reject calls made
     callFailed |-> FALSE, \* some gateway call failed
     recvMode |-> m]       \* the mode read when the submission arrived

\* a refresh starts a new submission cycle of the record
GhostRefresh(g, table, uid, m) ==
    IF IdOf(table, uid) = 0
    THEN Append(g, FreshGhost(m))
    ELSE [g EXCEPT ![IdOf(table, uid)] = FreshGhost(m)]

\* no pure function has been called
NoProbe == [fn |-> "none", in |-> <<>>, out |-> <<>>]

NoResp == [rid |-> 0, answer |-> "none", edit |-> "none", call |-> "none",
           callFailed |-> FALSE]

\* callback.answer(...) and, when the callback carries its message, the
\* edit_text(...) of a handler that made no gateway call
Resp(kind, rid, answer, edit, failed) ==
    [rid |-> rid, answer |-> answer, edit |-> edit, call |-> "none",
     callFailed |-> FALSE]

\* the same of a handler resumed after its gateway call returned (ok) or
\* raised TelegramBadRequest
RespAfter(h, ok, answer, edit) ==
    [rid |-> h.rid, answer |-> answer, edit |-> edit, call |-> h.call,
     callFailed |-> ~ok]

\* the history of a record after a gateway call of a handler of that kind
GhostAfter(g, h, ok, wrote) ==
    [g EXCEPT ![h.rid].execOK = IF ok THEN Sat(@) ELSE @,
              ![h.rid].callFailed = @ \/ ~ok,
              ![h.rid].writers = IF wrote THEN @ \cup {h.kind} ELSE @]

\* every suspended handler has now run beside another one
Overlap(hs) == [i \in 1..Len(hs) |-> [hs[i] EXCEPT !.alone = FALSE]]

\* whether one more handler may be suspended
Room(room) == Len(inflight) < room

Handler(kind, rid, request, fields) ==
    [kind |-> kind, pc |-> fields.pc, rid |-> rid, request |-> request,
     mode |-> fields.mode, call |-> fields.call,
     by |-> fields.by, alone |-> (kind = "join" /\ inflight = <<>>),
     stale |-> FALSE]

\* the join handlers of record rid that are still waiting when the record is
\* refreshed by a later submission
Supersede(hs, rid) ==
    [i \in 1..Len(hs) |->
        IF hs[i].kind = "join" /\ hs[i].rid = rid
        THEN [hs[i] EXCEPT !.stale = TRUE] ELSE hs[i]]

----------------------------------------------------------------------------
Init ==
    /\ settings \in { s \in SettingsSamples : SettingsValid(s) }
    /\ recs = <<>>
    /\ mode_setting = Null
    /\ inflight = <<>>
    /\ lastResp = NoResp
    /\ ghost = <<>>
    /\ joins = 0
    /\ probe = NoProbe

----------------------------------------------------------------------------
(* on_join_request *)

\* lines 741-751: the refresh, the mode read, then the first await
JoinStart(uid, chat, room) ==
    /\ chat = settings.channel_id
    /\ Room(room)
    /\ joins < MaxJoins
    /\ joins' = joins + 1
    /\ LET table == create_or_refresh_request(recs, uid)
           id    == IdOf(table, uid)
       IN /\ recs' = table
          /\ ghost' = GhostRefresh(ghost, recs, uid, get_moderation_mode)
          /\ inflight' = Append(Supersede(Overlap(inflight), id),
                 Handler("join", id, Null,
                         [pc |-> "assess", mode |-> get_moderation_mode,
                          call |-> "none", by |-> uid]))
    /\ UNCHANGED <<probe, settings, mode_setting, lastResp>>

\* Route with the hard captcha's attempts not limited by max_captcha_attempts
Route_NoMin(mode, score) ==
    IF mode = "manual" \/ score >= settings.risk_score_to_admin
    THEN [to |-> "admin",
          route_reason |-> IF mode = "manual" THEN "manual_mode"
                           ELSE "risk_threshold_admin"]
    ELSE IF score >= settings.risk_score_to_hard_captcha
    THEN [to |-> "captcha", difficulty |-> "hard",
          max_attempts |-> settings.hard_captcha_attempts]
    ELSE [to |-> "captcha", difficulty |-> "normal",
          max_attempts |-> settings.max_captcha_attempts]

\* Route from the mode stored when the route is written, not the one of line 746
Route_CurrentMode(mode, score) ==
    IF get_moderation_mode = "manual" \/ score >= settings.risk_score_to_admin
    THEN [to |-> "admin",
          route_reason |-> IF get_moderation_mode = "manual" THEN "manual_mode"
                           ELSE "risk_threshold_admin"]
    ELSE IF score >= settings.risk_score_to_hard_captcha
    THEN [to |-> "captcha", difficulty |-> "hard",
          max_attempts |-> Min(settings.max_captcha_attempts,
                               settings.hard_captcha_attempts)]
    ELSE [to |-> "captcha", difficulty |-> "normal",
          max_attempts |-> settings.max_captcha_attempts]

\* the route chosen at lines 769-811 from the mode read at line 746
Route(mode, score) ==
    IF mode = "manual" \/ score >= settings.risk_score_to_admin
    THEN [to |-> "admin",
          route_reason |-> IF mode = "manual" THEN "manual_mode"
                           ELSE "risk_threshold_admin"]
    ELSE IF score >= settings.risk_score_to_hard_captcha
    THEN [to |-> "captcha", difficulty |-> "hard",
          max_attempts |-> Min(settings.max_captcha_attempts,
                               settings.hard_captcha_attempts)]
    ELSE [to |-> "captcha", difficulty |-> "normal",
          max_attempts |-> settings.max_captcha_attempts]

\* lines 753-819: the risk profile and the route are written in one step
JoinRoute(i, sig, pick) ==
    LET h     == inflight[i]
        risk  == assess_risk(sig)
        route == Route(h.mode, risk.score)
        t1    == set_risk_profile(recs, h.rid, risk.estimated_age_days,
                                  risk.score, risk.reasons)
    IN /\ h.kind = "join" /\ h.pc = "assess"
       /\ ~assess_risk_raises(sig)
       /\ IF route.to = "admin"
          THEN recs' = mark_pending_admin(t1, h.rid,
                          <<"route", route.route_reason>>)
          ELSE /\ pick \in CaptchaDraws(route.difficulty)
               /\ LET c == generate_captcha(route.difficulty, pick) IN
                  recs' = mark_pending_captcha(t1, h.rid, c.question, c.answer,
                                               route.max_attempts, route.difficulty)
       /\ inflight' = RemoveAt(inflight, i)
       /\ UNCHANGED <<probe, joins, settings, mode_setting, lastResp, ghost>>

\* line 753: assess_risk raised; the coroutine ends with the record as it is
JoinAbort(i, sig) ==
    /\ inflight[i].kind = "join" /\ inflight[i].pc = "assess"
    /\ assess_risk_raises(sig)
    /\ inflight' = RemoveAt(inflight, i)
    /\ UNCHANGED <<probe, joins, settings, recs, mode_setting, lastResp, ghost>>

----------------------------------------------------------------------------
(* The gateway: approve_chat_join_request / decline_chat_join_request *)

\* a handler about to await the gateway
Suspend(kind, rid, call, actor) ==
    Append(Overlap(inflight),
           Handler(kind, rid, recs[rid],
                   [pc |-> "call", mode |-> "none", call |-> call, by |-> actor]))

CountReject(g, rid, call) ==
    IF call = "reject" THEN [g EXCEPT ![rid].rejectCalls = Sat(@)] ELSE g

----------------------------------------------------------------------------
(* on_captcha_callback *)

\* senders of a callback: the applicants, the admin, and a user that has no
\* record and is no admin
Actors == ApplicantsWide \cup {AdminId, NumApplicantsWide + 1}
\* record ids a callback may name: the known ones and one that does not exist
RequestIds == 1..(Len(recs) + 1)

\* lines 822-829: the payload does not parse
CapMalformed ==
    /\ lastResp' = Resp("cap", 0, "invalid", "none", FALSE)
    /\ inflight' = Overlap(inflight)
    /\ UNCHANGED <<probe, joins, settings, recs, mode_setting, ghost>>

\* lines 832-843: unknown record, foreign captcha, wrong state
CapRejected(actor, rid) ==
    /\ \/ /\ rid > Len(recs)
          /\ lastResp' = Resp("cap", rid, "not_found", "none", FALSE)
       \/ /\ rid <= Len(recs)
          /\ recs[rid].user_id # actor
          /\ lastResp' = Resp("cap", rid, "not_yours", "none", FALSE)
       \/ /\ rid <= Len(recs)
          /\ recs[rid].user_id = actor
          /\ recs[rid].status # "pending_captcha"
          /\ lastResp' = Resp("cap", rid, "already_processed", "none", FALSE)
    /\ inflight' = Overlap(inflight)
    /\ UNCHANGED <<probe, joins, settings, recs, mode_setting, ghost>>

\* CapAccepted without the test of line 837
CapAccepted_AnyActor(actor, rid) ==
    /\ rid <= Len(recs)
    /\ recs[rid].status = "pending_captcha"

\* lines 833-841 passed
CapAccepted(actor, rid) ==
    /\ rid <= Len(recs)
    /\ recs[rid].user_id = actor
    /\ recs[rid].status = "pending_captcha"

\* line 845
SnapshotMaxAttempts(row) ==
    IF row.captcha_max_attempts = 0 THEN settings.max_captcha_attempts
    ELSE row.captcha_max_attempts

\* CapCorrect taking every value but -1 for the stored answer
CapCorrect_AnyOption(actor, rid, selected, room) ==
    /\ CapAccepted(actor, rid)
    /\ selected # -1
    /\ Room(room)
    /\ inflight' = Suspend("cap", rid, "admit", actor)
    /\ UNCHANGED <<probe, joins, settings, recs, mode_setting, lastResp, ghost>>

\* lines 848-849: the selected answer is the stored one; admit is awaited
CapCorrect(actor, rid, selected, room) ==
    /\ CapAccepted(actor, rid)
    /\ selected = Val(recs[rid].captcha_answer)
    /\ Room(room)
    /\ inflight' = Suspend("cap", rid, "admit", actor)
    /\ UNCHANGED <<probe, joins, settings, recs, mode_setting, lastResp, ghost>>

\* lines 859-861: a wrong answer that uses up the attempts; reject is awaited
CapWrongLast(actor, rid, selected, room) ==
    /\ CapAccepted(actor, rid)
    /\ selected # Val(recs[rid].captcha_answer)
    /\ recs[rid].captcha_attempts < AttemptsCap
    /\ recs[rid].captcha_attempts + 1 >= SnapshotMaxAttempts(recs[rid])
    /\ Room(room)
    /\ recs' = increment_captcha_attempts(recs, rid)
    /\ inflight' = Suspend("cap", rid, "reject", actor)
    /\ ghost' = CountReject(ghost, rid, "reject")
    /\ UNCHANGED <<probe, joins, settings, mode_setting, lastResp>>

\* CapWrongRetry generating the new challenge with the default difficulty
CapWrongRetry_DefaultDifficulty(actor, rid, selected, pick, hasMessage) ==
    /\ CapAccepted(actor, rid)
    /\ selected # Val(recs[rid].captcha_answer)
    /\ recs[rid].captcha_attempts < AttemptsCap
    /\ recs[rid].captcha_attempts + 1 < SnapshotMaxAttempts(recs[rid])
    /\ pick \in CaptchaDraws("normal")
    /\ LET c == generate_captcha("normal", pick) IN
       recs' = refresh_captcha(increment_captcha_attempts(recs, rid), rid,
                               c.question, c.answer)
    /\ lastResp' = Resp("cap", rid, "wrong_retry",
                        IF hasMessage THEN "new_captcha" ELSE "none", FALSE)
    /\ inflight' = Overlap(inflight)
    /\ UNCHANGED <<probe, joins, settings, mode_setting, ghost>>

\* lines 859-881: a wrong answer with attempts left; a new challenge is stored
CapWrongRetry(actor, rid, selected, pick, hasMessage) ==
    /\ CapAccepted(actor, rid)
    /\ selected # Val(recs[rid].captcha_answer)
    /\ recs[rid].captcha_attempts < AttemptsCap
    /\ recs[rid].captcha_attempts + 1 < SnapshotMaxAttempts(recs[rid])
    /\ pick \in CaptchaDraws(recs[rid].captcha_difficulty)
    /\ LET c == generate_captcha(recs[rid].captcha_difficulty, pick) IN
       recs' = refresh_captcha(increment_captcha_attempts(recs, rid), rid,
                               c.question, c.answer)
    /\ lastResp' = Resp("cap", rid, "wrong_retry",
                        IF hasMessage THEN "new_captcha" ELSE "none", FALSE)
    /\ inflight' = Overlap(inflight)
    /\ UNCHANGED <<probe, joins, settings, mode_setting, ghost>>

\* lines 849-851: the record after try_approve_request
AfterAdmit(h, ok) ==
    IF ok THEN complete(recs, h.rid, "approved", Null,
                        <<"captcha_passed", h.request.captcha_difficulty>>)
    ELSE recs

\* AfterReject without the test of line 862
AfterReject_Unchecked(h, ok) ==
    complete(recs, h.rid, "declined", Null,
             <<"captcha_failed", h.request.captcha_difficulty>>)

\* lines 861-863: the record after try_decline_request
AfterReject(h, ok) ==
    IF ok THEN complete(recs, h.rid, "declined", Null,
                        <<"captcha_failed", h.request.captcha_difficulty>>)
    ELSE recs

\* lines 850-857 and 862-869: the handler resumes after the gateway call
CapFinish(i, ok, hasMessage) ==
    LET h == inflight[i] IN
    /\ h.kind = "cap" /\ h.pc = "call"
    /\ \/ /\ h.call = "admit"
          /\ recs' = AfterAdmit(h, ok)
          /\ lastResp' = IF ok
                THEN RespAfter(h, ok, "approved",
                               IF hasMessage THEN "passed_approved" ELSE "none")
                ELSE RespAfter(h, ok, "cannot_approve", "none")
       \/ /\ h.call = "reject"
          /\ recs' = AfterReject(h, ok)
          /\ lastResp' = RespAfter(h, ok, "wrong_answer",
                               IF hasMessage THEN "limit_declined" ELSE "none")
    /\ ghost' = GhostAfter(ghost, h, ok, ok)
    /\ inflight' = RemoveAt(inflight, i)
    /\ UNCHANGED <<probe, joins, settings, mode_setting>>

----------------------------------------------------------------------------
(* on_admin_callback *)

AdminActions == {"approve", "decline"}
CallOf(action) == IF action = "approve" THEN "admit" ELSE "reject"
StatusOf(call) == IF call = "admit" THEN "approved" ELSE "declined"

\* lines 884-905: no permission, bad payload, unknown record, wrong state
AdmRejected(actor, rid, wellFormed) ==
    /\ \/ /\ ~_is_admin(actor)
          /\ lastResp' = Resp("adm", 0, "no_permission", "none", FALSE)
       \/ /\ _is_admin(actor) /\ ~wellFormed
          /\ lastResp' = Resp("adm", 0, "invalid", "none", FALSE)
       \/ /\ _is_admin(actor) /\ wellFormed
          /\ rid > Len(recs)
          /\ lastResp' = Resp("adm", rid, "not_found", "none", FALSE)
       \/ /\ _is_admin(actor) /\ wellFormed
          /\ rid <= Len(recs)
          /\ recs[rid].status # "pending_admin"
          /\ lastResp' = Resp("adm", rid, "already_processed", "none", FALSE)
    /\ inflight' = Overlap(inflight)
    /\ UNCHANGED <<probe, joins, settings, recs, mode_setting, ghost>>

\* AdmStart without the test of line 903
AdmStart_AnyStatus(actor, action, rid, room) ==
    /\ _is_admin(actor)
    /\ rid <= Len(recs)
    /\ Room(room)
    /\ inflight' = Suspend("adm", rid, CallOf(action), actor)
    /\ ghost' = CountReject(ghost, rid, CallOf(action))
    /\ UNCHANGED <<probe, joins, settings, recs, mode_setting, lastResp>>

\* lines 907-909 and 931: the gateway call of the reviewer's decision is awaited
AdmStart(actor, action, rid, room) ==
    /\ _is_admin(actor)
    /\ rid <= Len(recs)
    /\ recs[rid].status = "pending_admin"
    /\ Room(room)
    /\ inflight' = Suspend("adm", rid, CallOf(action), actor)
    /\ ghost' = CountReject(ghost, rid, CallOf(action))
    /\ UNCHANGED <<probe, joins, settings, recs, mode_setting, lastResp>>

\* lines 909-913 and 931-935: the record after the reviewer's gateway call
AfterReview(h, ok) ==
    IF ok THEN complete(recs, h.rid, StatusOf(h.call), Some(h.by),
                        IF h.call = "admit" THEN <<"manual_approve">>
                        ELSE <<"manual_decline">>)
    ELSE recs

\* lines 910-929 and 932-950: the handler resumes after the gateway call
AdmFinish(i, ok, hasMessage) ==
    LET h == inflight[i] IN
    /\ h.kind = "adm" /\ h.pc = "call"
    /\ recs' = AfterReview(h, ok)
    /\ lastResp' = IF ok
          THEN RespAfter(h, ok, StatusOf(h.call),
                         IF hasMessage THEN "result" ELSE "none")
          ELSE RespAfter(h, ok, IF h.call = "admit" THEN "cannot_approve"
                                ELSE "cannot_decline", "none")
    /\ ghost' = GhostAfter(ghost, h, ok, ok)
    /\ inflight' = RemoveAt(inflight, i)
    /\ UNCHANGED <<probe, joins, settings, mode_setting>>

----------------------------------------------------------------------------
(* on_panel_callback *)

PanelActions == {"dashboard", "pending", "channel", "toggle_mode"}

set_moderation_mode(m) == Some(m)

\* lines 645-687; the store is written only by toggle_mode, before any await
Panel(actor, action, wellFormed) ==
    /\ \/ /\ ~_is_admin(actor)
          /\ lastResp' = Resp("panel", 0, "no_permission", "none", FALSE)
          /\ UNCHANGED mode_setting
       \/ /\ _is_admin(actor) /\ ~wellFormed
          /\ lastResp' = Resp("panel", 0, "invalid", "none", FALSE)
          /\ UNCHANGED mode_setting
       \/ /\ _is_admin(actor) /\ wellFormed /\ action = "toggle_mode"
          /\ mode_setting' = set_moderation_mode(
                 IF get_moderation_mode = "hybrid" THEN "manual" ELSE "hybrid")
          /\ lastResp' = Resp("panel", 0, "mode_set", "none", FALSE)
       \/ /\ _is_admin(actor) /\ wellFormed /\ action # "toggle_mode"
          /\ lastResp' = Resp("panel", 0, "shown", "none", FALSE)
          /\ UNCHANGED mode_setting
    /\ inflight' = Overlap(inflight)
    /\ UNCHANGED <<probe, joins, settings, recs, ghost>>

----------------------------------------------------------------------------
(* Spec: one applicant, overlapping handlers.  The events a handler rejects *)
(* before it touches the store change nothing but the response, and are    *)
(* left to SpecWide.                                                       *)

AnyDraw == CaptchaDraws("hard") \cup CaptchaDraws("normal")

Next ==
    \/ \E uid \in Applicants : JoinStart(uid, TargetChannel, MaxInflight)
    \/ \E i \in 1..Len(inflight), sig \in SignalSamples, pick \in AnyDraw :
          JoinRoute(i, sig, pick)
    \/ \E i \in 1..Len(inflight), sig \in SignalSamples : JoinAbort(i, sig)
    \/ \E actor \in Applicants, rid \in 1..Len(recs), selected \in SelectedAnswers :
          \/ CapCorrect(actor, rid, selected, MaxInflight)
          \/ CapWrongLast(actor, rid, selected, MaxInflight)
          \/ \E pick \in AnyDraw, hasMessage \in BOOLEAN :
                CapWrongRetry(actor, rid, selected, pick, hasMessage)
    \/ \E i \in 1..Len(inflight), ok \in BOOLEAN, hasMessage \in BOOLEAN :
          CapFinish(i, ok, hasMessage)
    \/ \E action \in AdminActions, rid \in 1..Len(recs) :
          AdmStart(AdminId, action, rid, MaxInflight)
    \/ \E i \in 1..Len(inflight), ok \in BOOLEAN, hasMessage \in BOOLEAN :
          AdmFinish(i, ok, hasMessage)
    \/ Panel(AdminId, "toggle_mode", TRUE)

Spec == Init /\ [][Next]_vars

----------------------------------------------------------------------------
(* SpecWide: every event from every sender, one handler at a time *)

NextWide ==
    \/ \E uid \in ApplicantsWide, chat \in Channels :
          JoinStart(uid, chat, MaxInflightWide)
    \/ \E i \in 1..Len(inflight), sig \in SignalSamples, pick \in AnyDraw :
          JoinRoute(i, sig, pick)
    \/ \E i \in 1..Len(inflight), sig \in SignalSamples : JoinAbort(i, sig)
    \/ CapMalformed
    \/ \E actor \in Actors, rid \in RequestIds : CapRejected(actor, rid)
    \/ \E actor \in Actors, rid \in RequestIds, selected \in SelectedAnswers :
          \/ CapCorrect(actor, rid, selected, MaxInflightWide)
          \/ CapWrongLast(actor, rid, selected, MaxInflightWide)
          \/ \E pick \in AnyDraw, hasMessage \in BOOLEAN :
                CapWrongRetry(actor, rid, selected, pick, hasMessage)
    \/ \E i \in 1..Len(inflight), ok \in BOOLEAN, hasMessage \in BOOLEAN :
          CapFinish(i, ok, hasMessage)
    \/ \E actor \in Actors, rid \in RequestIds, wellFormed \in BOOLEAN :
          AdmRejected(actor, rid, wellFormed)
    \/ \E actor \in Actors, action \in AdminActions, rid \in RequestIds :
          AdmStart(actor, action, rid, MaxInflightWide)
    \/ \E i \in 1..Len(inflight), ok \in BOOLEAN, hasMessage \in BOOLEAN :
          AdmFinish(i, ok, hasMessage)
    \/ \E actor \in Actors, action \in PanelActions, wellFormed \in BOOLEAN :
          Panel(actor, action, wellFormed)

SpecWide == Init /\ [][NextWide]_vars

\* the step ends a join handler: the event loop resumes a coroutine whose
\* await has completed, so a join handler under way does end
JoinEnd ==
    \E i \in 1..Len(inflight), sig \in SignalSamples :
       \/ \E pick \in AnyDraw : JoinRoute(i, sig, pick)
       \/ JoinAbort(i, sig)

\* SpecWide with every join handler run to its end
SpecWideLive == SpecWide /\ WF_vars(JoinEnd)

----------------------------------------------------------------------------
(* SpecPair: several applicants, one handler at a time; the events that   *)
(* write to the store                                                     *)

NextPair ==
    \/ \E uid \in ApplicantsPair : JoinStart(uid, TargetChannel, MaxInflightWide)
    \/ \E i \in 1..Len(inflight), sig \in SignalSamples, pick \in AnyDraw :
          JoinRoute(i, sig, pick)
    \/ \E i \in 1..Len(inflight), sig \in SignalSamples : JoinAbort(i, sig)
    \/ \E actor \in ApplicantsPair, rid \in 1..Len(recs), selected \in SelectedAnswers :
          \/ CapCorrect(actor, rid, selected, MaxInflightWide)
          \/ CapWrongLast(actor, rid, selected, MaxInflightWide)
          \/ \E pick \in AnyDraw, hasMessage \in BOOLEAN :
                CapWrongRetry(actor, rid, selected, pick, hasMessage)
    \/ \E i \in 1..Len(inflight), ok \in BOOLEAN, hasMessage \in BOOLEAN :
          CapFinish(i, ok, hasMessage)
    \/ \E action \in AdminActions, rid \in 1..Len(recs) :
          AdmStart(AdminId, action, rid, MaxInflightWide)
    \/ \E i \in 1..Len(inflight), ok \in BOOLEAN, hasMessage \in BOOLEAN :
          AdmFinish(i, ok, hasMessage)
    \/ Panel(AdminId, "toggle_mode", TRUE)

SpecPair == Init /\ [][NextPair]_vars

----------------------------------------------------------------------------
(* SpecRisk: assess_risk applied to every combination of the signals *)

\* one call of assess_risk: its result, or nothing when it raised
ProbeAssess(sig) ==
    /\ probe = NoProbe
    /\ probe' = [fn |-> "assess_risk", in |-> Some(sig),
                 out |-> IF assess_risk_raises(sig) THEN Null
                         ELSE Some(assess_risk(sig))]
    /\ UNCHANGED <<joins, settings, recs, mode_setting, inflight, lastResp, ghost>>

NextRisk == \E sig \in AllSignals : ProbeAssess(sig)

SpecRisk == Init /\ [][NextRisk]_vars

----------------------------------------------------------------------------
(* SpecCaptcha: generate_captcha applied to both difficulties *)

\* one call of generate_captcha that draws the offsets noises and leaves the
\* loop of line 465
ProbeCaptcha(difficulty, draw, noises, options_list) ==
    LET c       == generate_captcha(difficulty, draw)
        options == add_options({c.answer}, c.answer, noises)
    IN /\ probe = NoProbe
       /\ Cardinality(options) >= 4
       /\ options_list \in Shuffles(options)
       /\ probe' = [fn |-> "generate_captcha", in |-> Some(<<difficulty, draw>>),
                    out |-> Some([question |-> c.question, answer |-> c.answer,
                                  options |-> options_list])]
       /\ UNCHANGED <<joins, settings, recs, mode_setting, inflight, lastResp, ghost>>

NextCaptcha ==
    \E difficulty \in {"normal", "hard"} :
       \E draw \in CaptchaDrawsWide(difficulty), noises \in NoiseDraws(difficulty) :
          \E options_list \in Shuffles(add_options({generate_captcha(difficulty, draw).answer},
                                                  generate_captcha(difficulty, draw).answer,
                                                  noises)) :
             ProbeCaptcha(difficulty, draw, noises, options_list)

SpecCaptcha == Init /\ [][NextCaptcha]_vars

----------------------------------------------------------------------------
(* Properties *)

Ids == 1..Len(recs)
Terminal(status) == status \in {"approved", "declined"}

\* the step resumes handler i after its gateway call
Resumes(i) ==
    /\ inflight[i].pc = "call"
    /\ inflight' = RemoveAt(inflight, i)
    /\ lastResp'.call = inflight[i].call

\* the step is the routing step of the join handler i
Routes(i) ==
    /\ inflight[i].kind = "join"
    /\ inflight' = RemoveAt(inflight, i)
    /\ recs' # recs

\* no handler of record r is suspended
Quiet(r) == \A i \in 1..Len(inflight) : inflight[i].rid # r

(* C1: in one submission cycle of a record, a challenge-answer handler and
   a reviewer-action handler never both write a terminal status. *)
C1_OneTerminalWriter ==
    \A r \in Ids : ~({"cap", "adm"} \subseteq ghost[r].writers)

(* C2: in one submission cycle of a record at most one admit or reject call
   succeeds. *)
C2_AtMostOneDecision ==
    \A r \in Ids : ghost[r].execOK <= 1

(* C3: a record whose status is approved or declined is changed by no step
   but the refresh of a new join submission, which leaves it in status new. *)
C3_TerminalImmutable ==
    [][\A r \in Ids :
          Terminal(recs[r].status) =>
             \/ recs'[r] = recs[r]
             \/ /\ joins' = joins + 1
                /\ recs'[r] = FreshRow(recs[r].user_id)]_vars

(* C4: a step makes a record approved only as the resumption of a handler
   of that record whose admit call succeeded, and declined only as the
   resumption of one whose reject call succeeded; the resumption of a
   handler whose call failed leaves the status as it is. *)
C4_TerminalAfterSuccess ==
    [][\A r \in Ids :
          /\ (recs'[r].status # recs[r].status /\ Terminal(recs'[r].status)) =>
                \E i \in 1..Len(inflight) :
                   /\ Resumes(i)
                   /\ inflight[i].rid = r
                   /\ ~lastResp'.callFailed
                   /\ inflight[i].call =
                         (IF recs'[r].status = "approved" THEN "admit" ELSE "reject")
          /\ \A i \in 1..Len(inflight) :
                (Resumes(i) /\ inflight[i].rid = r /\ lastResp'.callFailed) =>
                   recs'[r].status = recs[r].status]_vars

\* a record was approved by a challenge answer, after a gateway call of the
\* same cycle had failed
C4_Witness ==
    \E r \in Ids :
       /\ recs[r].status = "approved"
       /\ ghost[r].callFailed
       /\ ghost[r].execOK = 1
       /\ lastResp.answer = "approved" /\ lastResp.call = "admit"

(* C5: when the gateway call of a handler failed, the record is, when the
   handler ends, what it was when the event arrived. *)
C5_FailedCallLeavesRecord ==
    [][\A i \in 1..Len(inflight) :
          (Resumes(i) /\ lastResp'.callFailed) =>
             recs'[inflight[i].rid] = inflight[i].request]_vars

(* C6: a handler whose gateway call failed answers that the action did not
   complete, and does not announce an approval or a decline. *)
C6_FailureReported ==
    lastResp.callFailed =>
       /\ lastResp.answer \in {"cannot_approve", "cannot_decline"}
       /\ lastResp.edit = "none"

(* C7: captcha_attempts never exceeds captcha_max_attempts. *)
C7_AttemptsWithinLimit ==
    \A r \in Ids : recs[r].captcha_attempts <= recs[r].captcha_max_attempts

(* C8: in a submission cycle routed to the challenge, reject is not called
   before the attempts are used up and, as long as no gateway call failed,
   it is called once only and the record is declined once the handlers of
   the record have ended. *)
C8_ExhaustionRejectsOnce ==
    \A r \in Ids :
       recs[r].captcha_question # Null =>
          /\ ghost[r].rejectCalls >= 1 =>
                recs[r].captcha_attempts >= recs[r].captcha_max_attempts
          /\ ~ghost[r].callFailed =>
                /\ ghost[r].rejectCalls <= 1
                /\ (Quiet(r) /\ recs[r].captcha_attempts >= recs[r].captcha_max_attempts)
                      => recs[r].status = "declined"

\* what the routing rule writes for a mode and a score
Routed(row, mode, score) ==
    IF mode = "manual" \/ score >= settings.risk_score_to_admin
    THEN row.status = "pending_admin"
    ELSE /\ row.status = "pending_captcha"
         /\ row.captcha_attempts = 0
         /\ IF score >= settings.risk_score_to_hard_captcha
            THEN /\ row.captcha_difficulty = "hard"
                 /\ row.captcha_max_attempts =
                       Min(settings.max_captcha_attempts,
                           settings.hard_captcha_attempts)
            ELSE /\ row.captcha_difficulty = "normal"
                 /\ row.captcha_max_attempts = settings.max_captcha_attempts

(* C9: the routing step of a join request handled without overlap leaves
   the record as the routing rule says, for the stored moderation mode and
   the score written with it. *)
C9_RouteByRule ==
    [][\A i \in 1..Len(inflight) :
          (Routes(i) /\ inflight[i].alone) =>
             Routed(recs'[inflight[i].rid], get_moderation_mode,
                    recs'[inflight[i].rid].risk_score)]_vars

\* one join request, handled alone with a score at the hard threshold under
\* the configuration whose hard captcha allows more attempts than the limit
C9_Witness ==
    /\ joins = 1 /\ inflight = <<>> /\ lastResp = NoResp
    /\ settings.hard_captcha_attempts > settings.max_captcha_attempts
    /\ \E r \in Ids :
          /\ recs[r].risk_score = settings.risk_score_to_hard_captcha
          /\ recs[r].status = "pending_captcha"
          /\ recs[r].captcha_difficulty = "hard"
          /\ recs[r].captcha_max_attempts = settings.max_captcha_attempts

(* C10: a record whose submission arrived while the mode was manual is
   never in pending_captcha. *)
C10_ManualNeverCaptcha ==
    \A r \in Ids :
       ghost[r].recvMode = "manual" => recs[r].status # "pending_captcha"

\* the moderation fields of a row as a refresh leaves them
Reset(row) ==
    /\ row.status = "new"
    /\ row.risk_score = 0
    /\ row.risk_reasons = Null
    /\ row.estimated_age_days = Null
    /\ row.captcha_question = Null
    /\ row.captcha_answer = Null
    /\ row.captcha_attempts = 0
    /\ row.decision_by = Null
    /\ row.decision_at = Null
    /\ row.reason = Null

\* the record of the join request the step received
Received == inflight'[Len(inflight')].rid

(* C11: the refresh of a join request for an applicant that already has a
   record, whatever its status, leaves the record with status new and the
   risk, challenge and decision fields empty, and a second refresh right
   after it would change nothing. *)
C11_RefreshResets ==
    [][(joins' = joins + 1 /\ Received <= Len(recs)) =>
          /\ Reset(recs'[Received])
          /\ create_or_refresh_request(recs', recs'[Received].user_id) = recs']_vars

\* a record that a challenge answer had approved was refreshed by the second
\* join request
C11_Witness ==
    /\ joins = 2
    /\ \E r \in Ids :
          /\ Reset(recs[r])
          /\ lastResp.rid = r
          /\ lastResp.answer = "approved"

(* C12: no two records belong to the same applicant of the channel, and a
   record id, once given to an applicant, stays with that applicant: no
   step removes a record or hands its id to another applicant. *)
C12_OneRecordPerApplicant ==
    [][/\ \A a, b \in 1..Len(recs') :
             recs'[a].user_id = recs'[b].user_id => a = b
       /\ \A r \in Ids :
             /\ r <= Len(recs')
             /\ recs'[r].user_id = recs[r].user_id]_vars

\* the second applicant has sent two join requests and has the one record
\* the first of them created
C12_Witness ==
    /\ joins = 2
    /\ Len(recs) = 1
    /\ recs[1].user_id = NumApplicantsPair
    /\ \E i \in 1..Len(inflight) : inflight[i].kind = "join" /\ inflight[i].rid = 1

\* the step is the handling of a button press of actor that names record rid
\* and carries the answer selected
CapPressIn(actor, rid, selected, room) ==
    \/ CapRejected(actor, rid)
    \/ CapCorrect(actor, rid, selected, room)
    \/ CapWrongLast(actor, rid, selected, room)
    \/ \E pick \in AnyDraw, hasMessage \in BOOLEAN :
          CapWrongRetry(actor, rid, selected, pick, hasMessage)

CapPress(actor, rid, selected) == CapPressIn(actor, rid, selected, MaxInflightWide)

\* the step wrote nothing to the store and left no handler waiting for the
\* gateway
NoEffect ==
    /\ recs' = recs
    /\ mode_setting' = mode_setting
    /\ ghost' = ghost
    /\ Len(inflight') = Len(inflight)

(* C13: a button press on a challenge by anyone but the applicant of the
   record is answered "not yours", changes no record and calls neither
   admit nor reject, whatever the answer it carries and whatever the status
   of the record. *)
C13_ForeignAnswerRejected ==
    [][\A actor \in Actors, rid \in Ids, selected \in SelectedAnswers :
          (actor # recs[rid].user_id /\ CapPress(actor, rid, selected)) =>
             /\ NoEffect
             /\ lastResp'.answer = "not_yours"]_vars

\* someone else pressed a button of a record that is waiting for its
\* applicant's answer
C13_Witness ==
    /\ lastResp.answer = "not_yours"
    /\ lastResp.rid \in Ids
    /\ recs[lastResp.rid].status = "pending_captcha"
    /\ recs[lastResp.rid].captcha_answer \in { Some(a) : a \in SelectedAnswers }

\* the step is the handling of a reviewer's button press
AdmPress(actor, action, rid, wellFormed) ==
    \/ AdmRejected(actor, rid, wellFormed)
    \/ wellFormed /\ AdmStart(actor, action, rid, MaxInflightWide)

(* C14: a button press whose payload does not parse, or that names a record
   that does not exist, a challenge answer on a record that is not
   pending_captcha and a reviewer's decision on a record that is not
   pending_admin change no record (captcha_attempts included) and call
   neither admit nor reject. *)
C14_InvalidActionRejected ==
    [][/\ CapMalformed => NoEffect
       /\ \A actor \in Actors, action \in PanelActions :
             Panel(actor, action, FALSE) => NoEffect
       /\ \A actor \in Actors, rid \in RequestIds :
             /\ \A selected \in SelectedAnswers :
                   (/\ rid > Len(recs) \/ recs[rid].status # "pending_captcha"
                    /\ CapPress(actor, rid, selected)) => NoEffect
             /\ \A action \in AdminActions, wellFormed \in BOOLEAN :
                   (/\ \/ ~wellFormed
                       \/ rid > Len(recs)
                       \/ recs[rid].status # "pending_admin"
                    /\ AdmPress(actor, action, rid, wellFormed)) => NoEffect]_vars

\* the applicant pressed a challenge button of a record that a wrong answer
\* had already declined
C14_Witness ==
    /\ lastResp.answer = "already_processed"
    /\ lastResp.rid \in Ids
    /\ recs[lastResp.rid].status = "declined"
    /\ recs[lastResp.rid].decision_by = Null
    /\ inflight = <<>>

\* the status a handler of that kind found when its event arrived
PreState(kind) == IF kind = "cap" THEN "pending_captcha" ELSE "pending_admin"

(* C15: a handler resumed after its gateway call writes the record only if
   the status is still the one the handler found when its event arrived. *)
C15_WriteOnlyIfStillPending ==
    [][\A i \in 1..Len(inflight) :
          (Resumes(i) /\ recs'[inflight[i].rid] # recs[inflight[i].rid]) =>
             recs[inflight[i].rid].status = PreState(inflight[i].kind)]_vars

(* C16: a change of the moderation mode changes no record and no handler
   that is under way; a join request is given the mode stored when it
   arrives, and its route is the one the routing rule gives for that mode,
   whatever the mode is when the route is written. *)
C16_ModeChangeNoReroute ==
    [][/\ mode_setting' # mode_setting =>
             /\ recs' = recs
             /\ Len(inflight') = Len(inflight)
             /\ \A i \in 1..Len(inflight) :
                   /\ inflight'[i].kind = inflight[i].kind
                   /\ inflight'[i].mode = inflight[i].mode
       /\ joins' = joins + 1 =>
             inflight'[Len(inflight')].mode = get_moderation_mode
       /\ \A i \in 1..Len(inflight) :
             Routes(i) =>
                Routed(recs'[inflight[i].rid], inflight[i].mode,
                       recs'[inflight[i].rid].risk_score)]_vars

\* the only join request arrived under hybrid mode and its record waits for
\* the challenge while the mode is manual
C16_Witness ==
    /\ joins = 1 /\ inflight = <<>>
    /\ get_moderation_mode = "manual"
    /\ lastResp.answer = "mode_set"
    /\ \E r \in Ids :
          /\ ghost[r].recvMode = "hybrid"
          /\ recs[r].status = "pending_captcha"

\* the sum of the weights of the rules a combination of signals triggers
ExpectedScore(sig) ==
    (IF sig.is_bot THEN 10 ELSE 0)
    + (IF sig.age < settings.min_account_age_days THEN 5 ELSE 0)
    + (IF ~sig.username THEN 3 ELSE 0)
    + (IF sig.bad_name THEN 2 ELSE 0)
    + (IF sig.photo = "absent" THEN 2 ELSE 0)
    + (IF sig.bio = "spam" THEN 3 ELSE 0)

\* the estimated-age entry, then the tags of the triggered rules in the
\* fixed order
ExpectedReasons(sig) ==
    << <<"eta_account_stimata", sig.age>> >>
    \o (IF sig.is_bot THEN << <<"account_bot">> >> ELSE <<>>)
    \o (IF sig.age < settings.min_account_age_days
        THEN << <<"eta_sotto_soglia", sig.age, settings.min_account_age_days>> >>
        ELSE <<>>)
    \o (IF ~sig.username THEN << <<"username_assente">> >> ELSE <<>>)
    \o (IF sig.bad_name THEN << <<"nome_sospetto">> >> ELSE <<>>)
    \o (IF sig.photo = "absent" THEN << <<"foto_profilo_assente">> >> ELSE <<>>)
    \o (IF sig.bio = "spam" THEN << <<"bio_con_pattern_spam">> >> ELSE <<>>)

(* C17: whenever assess_risk returns, its score is the sum of the weights
   10, 5, 3, 2, 2, 3 of the triggered rules and its reasons are the
   estimated-age entry followed by the tags of the triggered rules in the
   fixed order. *)
C17_ScoreIsSumOfWeights ==
    (probe.fn = "assess_risk" /\ probe.out # Null) =>
       /\ Val(probe.out).estimated_age_days = Val(probe.in).age
       /\ Val(probe.out).score = ExpectedScore(Val(probe.in))
       /\ Val(probe.out).reasons = ExpectedReasons(Val(probe.in))

\* assess_risk returned for an applicant that triggers all six rules
C17_Witness ==
    /\ probe.fn = "assess_risk" /\ probe.out # Null
    /\ Val(probe.in).is_bot /\ ~Val(probe.in).username /\ Val(probe.in).bad_name
    /\ Val(probe.in).photo = "absent" /\ Val(probe.in).bio = "spam"
    /\ Val(probe.out).score = 25
    /\ Len(Val(probe.out).reasons) = 7

(* C18: a join handler ends with its record in pending_admin or in
   pending_captcha, also when a lookup of the profile photo or of the
   biography failed. *)
C18_LookupFailureStillRoutes ==
    [][\A i \in 1..Len(inflight) :
          (inflight[i].kind = "join" /\ inflight' = RemoveAt(inflight, i)) =>
             recs'[inflight[i].rid].status \in {"pending_admin", "pending_captcha"}]_vars

\* the value of the expression a question shows
ValueOf(question) ==
    CASE question[2] = "+" -> question[1] + question[3]
      [] question[2] = "-" -> question[1] - question[3]
      [] question[2] = "*" -> question[1] * question[3]

(* C19: generate_captcha returns four candidate answers, no two of them
   equal and one of them the expected answer, and the expected answer is
   the value of the expression of the question. *)
C19_FourDistinctOptions ==
    probe.fn = "generate_captcha" =>
       LET c == Val(probe.out) IN
       /\ Len(c.options) = 4
       /\ \A a, b \in 1..Len(c.options) : c.options[a] = c.options[b] => a = b
       /\ \E a \in 1..Len(c.options) : c.options[a] = c.answer
       /\ c.answer = ValueOf(c.question)

\* a hard challenge whose subtraction was turned round, with the expected
\* answer shown last
C19_Witness ==
    /\ probe.fn = "generate_captcha"
    /\ Val(probe.in) = <<"hard", <<7, 13, "-">>>>
    /\ Val(probe.out).question = <<13, "-", 7>>
    /\ Val(probe.out).answer = 6
    /\ Val(probe.out).options[4] = 6

\* the step left a handler of record rid waiting for the admit call
AdmitAwaited(rid) ==
    /\ Len(inflight') = Len(inflight) + 1
    /\ inflight'[Len(inflight')].rid = rid
    /\ inflight'[Len(inflight')].call = "admit"

(* C20: when the applicant presses an answer on a record in
   pending_captcha, admit is called, and the record left as it is, exactly
   when the value pressed is the answer stored on the record; any other
   value adds one to captcha_attempts and admit is not called. *)
C20_CorrectIffStoredAnswer ==
    [][\A rid \in Ids, selected \in SelectedAnswers :
          (/\ recs[rid].status = "pending_captcha"
           /\ CapPressIn(recs[rid].user_id, rid, selected, MaxInflight)) =>
             IF selected = Val(recs[rid].captcha_answer)
             THEN AdmitAwaited(rid) /\ recs' = recs
             ELSE /\ ~AdmitAwaited(rid)
                  /\ recs'[rid].captcha_attempts = recs[rid].captcha_attempts + 1]_vars

\* after a wrong answer the applicant pressed the answer of the challenge
\* that replaced the first one
C20_Witness ==
    \E i \in 1..Len(inflight) :
       /\ inflight[i].kind = "cap" /\ inflight[i].call = "admit"
       /\ inflight[i].request.captcha_attempts = 1
       /\ recs[inflight[i].rid] = inflight[i].request

(* C21: the risk profile of a record is written only while it is empty, as
   a refresh leaves it: between two refreshes risk_score and risk_reasons
   are written once at most. *)
C21_RiskWrittenOncePerCycle ==
    [][\A i \in 1..Len(inflight) :
          Routes(i) => recs[inflight[i].rid].risk_reasons = Null]_vars

\* every record but rid is after the step what it was before
Others(rid) == \A r \in Ids : r # rid => recs'[r] = recs[r]

(* C22: a step of a handler changes no record but the one its event names:
   the record of the applicant for a join request, the record of the
   pressed button for a challenge answer or a reviewer's decision, whether
   the gateway call succeeded or failed, and none for a change of mode. *)
C22_OtherRecordsUntouched ==
    [][IF joins' = joins + 1
       THEN Others(Received)
       ELSE IF Len(inflight') > Len(inflight)
       THEN Others(inflight'[Len(inflight')].rid)
       ELSE IF Len(inflight') < Len(inflight)
       THEN \A i \in 1..Len(inflight) :
               inflight' = RemoveAt(inflight, i) => Others(inflight[i].rid)
       ELSE Others(lastResp'.rid)]_vars

\* the decline of the second record failed at the gateway while the first
\* record had been approved by a challenge answer
C22_Witness ==
    /\ Len(recs) = 2
    /\ recs[1].status = "approved" /\ recs[1].decision_by = Null
    /\ recs[2].status = "pending_admin"
    /\ lastResp.rid = 2 /\ lastResp.callFailed /\ lastResp.call = "reject"

(* C23: when the join handlers run to their end, a record in status new
   comes to be in pending_admin or in pending_captcha. *)
C23_NewIsTransient ==
    \A r \in 1..NumApplicantsWide :
       (Len(recs) >= r /\ recs[r].status = "new")
          ~> (Len(recs) >= r /\ recs[r].status \in {"pending_admin", "pending_captcha"})

----------------------------------------------------------------------------
(* SpecEstimate: estimate_created_at_from_user_id over the identifier range *)

\* An identifier n is kept as <<n \div Giga, n % Giga>>, timestamps are whole
\* seconds since the epoch.
Giga == 1000000000

IdLeq(a, b) == a[1] < b[1] \/ (a[1] = b[1] /\ a[2] <= b[2])

\* a - b, for identifiers at most Giga apart
IdDiff(a, b) == (a[1] - b[1]) * Giga + (a[2] - b[2])

\* a + d, for |d| < Giga
IdShift(a, d) ==
    LET r == a[2] + d
    IN IF r < 0 THEN <<a[1] - 1, r + Giga>>
       ELSE IF r >= Giga THEN <<a[1] + 1, r - Giga>>
       ELSE <<a[1], r>>

ID_DATE_ANCHORS ==
    << << <<0, 1>>, 1376438400 >>,
       << <<1, 0>>, 1483228800 >>,
       << <<2, 0>>, 1546300800 >>,
       << <<3, 0>>, 1609459200 >>,
       << <<4, 0>>, 1656633600 >>,
       << <<5, 0>>, 1688169600 >>,
       << <<6, 0>>, 1719792000 >>,
       << <<7, 0>>, 1751328000 >> >>

\* <<quotient, remainder>> of r * s by l for 0 <= r < l, computed by doubling
\* so that no intermediate value exceeds 2 * l
RECURSIVE MulDivMod(_, _, _)
MulDivMod(r, s, l) ==
    IF s = 0 THEN <<0, 0>>
    ELSE LET h   == MulDivMod(r, s \div 2, l)
             dbl == IF h[2] >= l - h[2] THEN <<1, h[2] - (l - h[2])>>
                    ELSE <<0, 2 * h[2]>>
             add == IF s % 2 = 0 THEN <<0, dbl[2]>>
                    ELSE IF dbl[2] >= l - r THEN <<1, dbl[2] - (l - r)>>
                    ELSE <<0, dbl[2] + r>>
         IN <<2 * h[1] + dbl[1] + add[1], add[2]>>

\* left_ts + ratio * (right_ts - left_ts) with ratio = num / den, in whole seconds
Interpolate(left_ts, right_ts, num, den) ==
    IF num = den THEN right_ts
    ELSE left_ts + MulDivMod(num, right_ts - left_ts, den)[1]

\* the last anchor's date is returned for every identifier above the first one
estimate_ClampFirst(user_id) ==
    LET anchors == ID_DATE_ANCHORS
    IN IF IdLeq(user_id, anchors[1][1]) THEN anchors[1][2]
       ELSE IF \E idx \in 1..(Len(anchors) - 1) :
                  IdLeq(anchors[idx][1], user_id) /\ IdLeq(user_id, anchors[idx + 1][1])
       THEN LET idx == CHOOSE k \in 1..(Len(anchors) - 1) :
                          /\ IdLeq(anchors[k][1], user_id) /\ IdLeq(user_id, anchors[k + 1][1])
                          /\ \A j \in 1..(k - 1) :
                                ~(IdLeq(anchors[j][1], user_id) /\ IdLeq(user_id, anchors[j + 1][1]))
            IN Interpolate(anchors[idx][2], anchors[idx + 1][2],
                           IdDiff(user_id, anchors[idx][1]),
                           IdDiff(anchors[idx + 1][1], anchors[idx][1]))
       ELSE anchors[1][2]

estimate_created_at_from_user_id(user_id) ==
    LET anchors == ID_DATE_ANCHORS
    IN IF IdLeq(user_id, anchors[1][1]) THEN anchors[1][2]
       ELSE IF \E idx \in 1..(Len(anchors) - 1) :
                  IdLeq(anchors[idx][1], user_id) /\ IdLeq(user_id, anchors[idx + 1][1])
       THEN LET idx == CHOOSE k \in 1..(Len(anchors) - 1) :
                          /\ IdLeq(anchors[k][1], user_id) /\ IdLeq(user_id, anchors[k + 1][1])
                          /\ \A j \in 1..(k - 1) :
                                ~(IdLeq(anchors[j][1], user_id) /\ IdLeq(user_id, anchors[j + 1][1]))
            IN Interpolate(anchors[idx][2], anchors[idx + 1][2],
                           IdDiff(user_id, anchors[idx][1]),
                           IdDiff(anchors[idx + 1][1], anchors[idx][1]))
       ELSE anchors[Len(anchors)][2]

\* identifiers next to every anchor, inside every segment and outside the range
IdSamples ==
    {IdShift(ID_DATE_ANCHORS[k][1], d) :
        k \in 1..Len(ID_DATE_ANCHORS), d \in {-6, -1, 0, 1, 2, 250000000, 500000001}}

ProbeEstimate(a, b) ==
    /\ probe = NoProbe
    /\ IdLeq(a, b)
    /\ probe' = [fn |-> "estimate_created_at_from_user_id", in |-> Some(<<a, b>>),
                 out |-> Some(<<estimate_created_at_from_user_id(a),
                                estimate_created_at_from_user_id(b)>>)]
    /\ UNCHANGED <<joins, settings, recs, mode_setting, inflight, lastResp, ghost>>

NextEstimate == \E a \in IdSamples, b \in IdSamples : ProbeEstimate(a, b)

SpecEstimate == Init /\ [][NextEstimate]_vars

(* C24: for identifiers a <= b the estimate of a is at most the estimate of b,
   within a segment, across anchor boundaries and outside the anchor range, and
   every estimate lies between the first and the last anchor's timestamps *)
C24_EstimateMonotoneAndBounded ==
    probe.fn = "estimate_created_at_from_user_id" =>
       /\ Val(probe.out)[1] <= Val(probe.out)[2]
       /\ \A k \in 1..2 :
             /\ ID_DATE_ANCHORS[1][2] <= Val(probe.out)[k]
             /\ Val(probe.out)[k] <= ID_DATE_ANCHORS[Len(ID_DATE_ANCHORS)][2]

\* an identifier just below an anchor against one inside the next segment, with
\* different estimates, and a second pair beyond the last anchor
C24_Witness ==
    /\ probe.fn = "estimate_created_at_from_user_id"
    /\ Val(probe.in) = << <<2, 999999999>>, <<3, 250000000>> >>
    /\ Val(probe.out)[1] < ID_DATE_ANCHORS[4][2]
    /\ Val(probe.out)[2] > ID_DATE_ANCHORS[4][2]

\* the challenge fields of record rid after the step are a challenge that
\* generate_captcha can return for difficulty
FreshChallenge(rid, difficulty) ==
    \E pick \in CaptchaDraws(difficulty) :
       /\ recs'[rid].captcha_question = Some(generate_captcha(difficulty, pick).question)
       /\ recs'[rid].captcha_answer = Some(generate_captcha(difficulty, pick).answer)

(* C25: a wrong answer of the applicant on a pending_captcha record with
   captcha_attempts + 1 < captcha_max_attempts keeps the status, adds exactly
   one to captcha_attempts, stores a challenge generated for the record's
   stored difficulty, leaves captcha_max_attempts, captcha_difficulty and the
   risk fields alone, and awaits neither admit nor reject *)
C25_WrongAnswerWithAttemptsLeft ==
    [][\A rid \in Ids, selected \in SelectedAnswers :
          (/\ recs[rid].status = "pending_captcha"
           /\ selected # Val(recs[rid].captcha_answer)
           /\ recs[rid].captcha_attempts + 1 < recs[rid].captcha_max_attempts
           /\ CapPressIn(recs[rid].user_id, rid, selected, MaxInflight)) =>
             /\ recs'[rid].status = "pending_captcha"
             /\ recs'[rid].captcha_attempts = recs[rid].captcha_attempts + 1
             /\ FreshChallenge(rid, recs[rid].captcha_difficulty)
             /\ recs'[rid].captcha_max_attempts = recs[rid].captcha_max_attempts
             /\ recs'[rid].captcha_difficulty = recs[rid].captcha_difficulty
             /\ recs'[rid].risk_score = recs[rid].risk_score
             /\ recs'[rid].risk_reasons = recs[rid].risk_reasons
             /\ recs'[rid].is_suspicious = recs[rid].is_suspicious
             /\ recs'[rid].estimated_age_days = recs[rid].estimated_age_days
             /\ Len(inflight') = Len(inflight)
             /\ ghost' = ghost
             /\ lastResp'.answer = "wrong_retry"]_vars

\* a hard challenge was answered wrongly once and a new one was issued
C25_Witness ==
    /\ lastResp.answer = "wrong_retry"
    /\ lastResp.rid \in Ids
    /\ recs[lastResp.rid].status = "pending_captcha"
    /\ recs[lastResp.rid].captcha_difficulty = "hard"
    /\ recs[lastResp.rid].captcha_attempts = 1
    /\ recs[lastResp.rid].captcha_max_attempts = 2

(* C26: a reviewer's approve or decline and a panel action of a sender that
   is not in admin_ids change no record and no setting and await neither
   admit nor reject, and a decision_by that is set is a member of admin_ids *)
C26_OnlyAdminsDecide ==
    [][/\ \A actor \in Actors :
             actor \notin settings.admin_ids =>
                /\ \A action \in AdminActions, rid \in RequestIds, wellFormed \in BOOLEAN :
                      AdmPress(actor, action, rid, wellFormed) => NoEffect
                /\ \A action \in PanelActions, wellFormed \in BOOLEAN :
                      Panel(actor, action, wellFormed) => NoEffect
       /\ \A r \in 1..Len(recs') :
             recs'[r].decision_by # Null =>
                Val(recs'[r].decision_by) \in settings.admin_ids]_vars

\* a sender outside admin_ids pressed a reviewer's or a panel button while a
\* record was waiting for review
C26_Witness ==
    /\ lastResp.answer = "no_permission"
    /\ \E r \in Ids : recs[r].status = "pending_admin" /\ recs[r].decision_by = Null

(* C27: no admit is awaited for a challenge answer, and no record is set to
   approved by the challenge path, once captcha_attempts has reached
   captcha_max_attempts *)
C27_NoApprovalAfterExhaustion ==
    [][/\ \A rid \in Ids, selected \in SelectedAnswers :
             CapCorrect(recs[rid].user_id, rid, selected, MaxInflight) =>
                recs[rid].captcha_attempts < recs[rid].captcha_max_attempts
       /\ \A i \in 1..Len(inflight) :
             (/\ Resumes(i)
              /\ inflight[i].kind = "cap"
              /\ recs[inflight[i].rid].status # "approved"
              /\ recs'[inflight[i].rid].status = "approved") =>
                recs[inflight[i].rid].captcha_attempts
                   < recs[inflight[i].rid].captcha_max_attempts]_vars

(* C28: when a join handler is still waiting while a later submission of the
   same applicant refreshes the record, the risk fields, the route and the
   challenge the record ends with are those of the later handler: the earlier
   handler writes them only while the later one has still to write its own *)
C28_LaterSubmissionWins ==
    [][\A i \in 1..Len(inflight) :
          (Routes(i) /\ inflight[i].stale) =>
             \E j \in 1..Len(inflight) :
                /\ inflight[j].kind = "join"
                /\ inflight[j].rid = inflight[i].rid
                /\ ~inflight[j].stale]_vars

(* C29: in every state a record has a decision_at exactly when its status is
   approved or declined: a record in new, pending_admin or pending_captcha has
   neither decision_at nor decision_by, and an approved or declined one has a
   decision_at and a reason *)
C29_DecisionFieldsIffTerminal ==
    \A r \in Ids :
       /\ recs[r].decision_at # Null <=> Terminal(recs[r].status)
       /\ ~Terminal(recs[r].status) => recs[r].decision_by = Null
       /\ Terminal(recs[r].status) => recs[r].reason # Null

(* C30: in every state a record in pending_captcha has a risk_score below
   risk_score_to_admin, is hard exactly when the score is at least
   risk_score_to_hard_captcha, and has the captcha_max_attempts the routing
   rule gives to its difficulty; a record in pending_admin for the risk
   threshold has a score that reaches it: the stored risk profile and the
   stored route are of one assessment, also when join handlers overlap *)
C30_RouteMatchesRiskProfile ==
    \A r \in Ids :
       /\ recs[r].status = "pending_captcha" =>
             /\ recs[r].risk_reasons # Null
             /\ recs[r].risk_score < settings.risk_score_to_admin
             /\ recs[r].captcha_difficulty = "hard"
                   <=> recs[r].risk_score >= settings.risk_score_to_hard_captcha
             /\ recs[r].is_suspicious <=> recs[r].captcha_difficulty = "hard"
             /\ recs[r].captcha_max_attempts =
                   IF recs[r].captcha_difficulty = "hard"
                   THEN Min(settings.max_captcha_attempts, settings.hard_captcha_attempts)
                   ELSE settings.max_captcha_attempts
       /\ (/\ recs[r].status = "pending_admin"
           /\ recs[r].reason = Some(<<"route", "risk_threshold_admin">>)) =>
             recs[r].risk_score >= settings.risk_score_to_admin

\* a hard challenge is pending, written by one of two overlapping join
\* handlers while the superseded one has still to resume
C30_Witness ==
    /\ \E i \in 1..Len(inflight) :
          inflight[i].kind = "join" /\ inflight[i].stale /\ inflight[i].rid = 1
    /\ recs[1].status = "pending_captcha"
    /\ recs[1].captcha_difficulty = "hard"
    /\ recs[1].risk_score = settings.risk_score_to_hard_captcha

(* C31: in every state a record in pending_captcha has a captcha_question
   and a captcha_answer, so that the comparison of line 848 always has a
   stored answer to compare with *)
C31_PendingCaptchaHasChallenge ==
    \A r \in Ids :
       recs[r].status = "pending_captcha" =>
          /\ recs[r].captcha_question # Null
          /\ recs[r].captcha_answer # Null

\* a challenge answer is waiting for its gateway call while a later submission
\* has refreshed the record and issued another challenge
C31_Witness ==
    \E i \in 1..Len(inflight) :
       /\ inflight[i].kind = "cap"
       /\ joins = 2
       /\ recs[inflight[i].rid].status = "pending_captcha"
       /\ recs[inflight[i].rid].captcha_answer # Null
       /\ recs[inflight[i].rid].captcha_answer # inflight[i].request.captcha_answer

----------------------------------------------------------------------------
(* SpecMode: the events of SpecWide on a database file whose bot_settings  *)
(* table was left by an earlier run: no row, either mode, or another text  *)

StoredModes == {Null, Some("hybrid"), Some("manual"), Some("legacy")}

InitMode ==
    /\ settings \in { s \in SettingsSamples : SettingsValid(s) }
    /\ recs = <<>>
    /\ mode_setting \in StoredModes
    /\ inflight = <<>>
    /\ lastResp = NoResp
    /\ ghost = <<>>
    /\ joins = 0
    /\ probe = NoProbe

SpecMode == InitMode /\ [][NextWide]_vars

Flip(m) == IF m = "hybrid" THEN "manual" ELSE "hybrid"

\* the step is a toggle_mode press of an admin
Toggles == \E actor \in settings.admin_ids : Panel(actor, "toggle_mode", TRUE)

(* C32: the moderation mode is read as hybrid or manual, hybrid when the
   stored value is neither; every toggle of an admin changes the mode read to
   the other value and no other step changes it, so that after n toggles,
   whatever handlers they interleave with, the mode is the initial one
   flipped n times *)
C32_TogglesFlipMode ==
    [][/\ get_moderation_mode \in {"hybrid", "manual"}
       /\ get_moderation_mode' \in {"hybrid", "manual"}
       /\ mode_setting \notin {Some("hybrid"), Some("manual")} =>
             get_moderation_mode = "hybrid"
       /\ IF Toggles
          THEN /\ get_moderation_mode' = Flip(get_moderation_mode)
               /\ mode_setting' = Some(get_moderation_mode')
          ELSE get_moderation_mode' = get_moderation_mode]_vars

\* a join handler that read manual is still waiting, and the mode has been
\* toggled back to hybrid behind it
C32_Witness ==
    /\ lastResp.answer = "mode_set"
    /\ mode_setting = Some("hybrid")
    /\ \E i \in 1..Len(inflight) :
          inflight[i].kind = "join" /\ inflight[i].mode = "manual"
=============================================================================
